---- MODULE Spec2Model ----
(***************************************************************************)
(* Model of the Qwiic MicroPressure (MPR) sensor driver,                   *)
(* SparkFun_MicroPressure.{h,cpp}.                                         *)
(*                                                                         *)
(* Numbers keep the widths of the source.  A float is an IEEE-754 binary32 *)
(* value, held unpacked as [k, s, m, e]: k is "nan", "inf" or "fin", s the *)
(* sign bit, and a finite value is (-1)^s * m * 2^e with m < 2^24 and      *)
(* -149 <= e <= 104, m >= 2^23 unless e = -149 (subnormals and zero).      *)
(* Every float operation rounds to nearest, ties to even, and is rounded on *)
(* its own (no fused multiply-add).  A uint32_t is a pair of 16-bit halves *)
(* [hi, lo] because its values exceed the integers the model checker       *)
(* computes with.                                                          *)
(***************************************************************************)
EXTENDS Integers, Sequences, FiniteSets, TLC

\* ---------------------------------------------------------------- integers

RECURSIVE Pow2(_)
Pow2(n) == IF n <= 0 THEN 1 ELSE 2 * Pow2(n - 1)

RECURSIVE BitLen(_)
BitLen(n) == IF n = 0 THEN 0 ELSE 1 + BitLen(n \div 2)

Max(a, b) == IF a >= b THEN a ELSE b

Min(a, b) == IF a <= b THEN a ELSE b

Abs(a) == IF a < 0 THEN 0 - a ELSE a

Xor(a, b) == (a + b) % 2

RECURSIVE BitAnd(_, _)
BitAnd(a, b) ==
  IF a = 0 \/ b = 0 THEN 0
  ELSE ((a % 2) * (b % 2)) + 2 * BitAnd(a \div 2, b \div 2)

RECURSIVE BitOr(_, _)
BitOr(a, b) ==
  IF a = 0 THEN b
  ELSE IF b = 0 THEN a
  ELSE Max(a % 2, b % 2) + 2 * BitOr(a \div 2, b \div 2)

\* ------------------------------------------------------------ uint32 / int32

INT32_MAX == 2147483647

INT32_MIN == (0 - 2147483647) - 1

\* a uint32_t holding the non-negative integer n (n <= INT32_MAX)
U32(n) == [hi |-> n \div 65536, lo |-> n % 65536]

\* uint32_t subtraction, modulo 2^32
U32Sub(a, b) ==
  LET lo == a.lo - b.lo
      borrow == IF lo < 0 THEN 1 ELSE 0
      hi == (a.hi - b.hi) - borrow
  IN [hi |-> hi % 65536, lo |-> lo % 65536]

U32Lt(a, b) == a.hi < b.hi \/ (a.hi = b.hi /\ a.lo < b.lo)

\* int32_t(x) for a uint32_t x: the same 32 bits read as two's complement
Int32OfU32(u) ==
  IF u.hi < 32768 THEN u.hi * 65536 + u.lo
  ELSE (u.hi - 65536) * 65536 + u.lo

\* ------------------------------------------------------------------ binary32

MantBits == 24

EMin == 0 - 149

EMax == 104

NaN == [k |-> "nan", s |-> 0, m |-> 0, e |-> 0]

Inf(s) == [k |-> "inf", s |-> s, m |-> 0, e |-> 0]

Zero(s) == [k |-> "fin", s |-> s, m |-> 0, e |-> EMin]

Fin(s, m, e) == [k |-> "fin", s |-> s, m |-> m, e |-> e]

IsNaN(x) == x.k = "nan"

IsInf(x) == x.k = "inf"

IsFinite(x) == x.k = "fin"

IsZero(x) == x.k = "fin" /\ x.m = 0

\* The binary32 nearest (ties to even) to (-1)^s * (M + t) * 2^E, where
\* 0 <= M < 2^31 and t is 0 when sticky is FALSE and some amount strictly
\* between 0 and 1 when it is TRUE (then M has at least 25 bits).
RoundPack(s, M, E, sticky) ==
  IF M = 0 THEN Zero(s)
  ELSE
    LET L == BitLen(M)
        sh == Max(L - MantBits, EMin - E)
    IN IF sh <= 0
       THEN LET kk == Min(MantBits - L, E - EMin)
            IN IF E - kk > EMax THEN Inf(s)
               ELSE Fin(s, M * Pow2(kk), E - kk)
       ELSE IF sh >= 32 THEN Zero(s)
       ELSE
         LET half == Pow2(sh - 1)
             q == IF sh = 31 THEN 0 ELSE M \div (2 * half)
             r == IF sh = 31 THEN M ELSE M % (2 * half)
             up == r > half \/ (r = half /\ (sticky \/ q % 2 = 1))
             q1 == IF up THEN q + 1 ELSE q
             m1 == IF q1 = Pow2(MantBits) THEN Pow2(MantBits - 1) ELSE q1
             e1 == IF q1 = Pow2(MantBits) THEN E + sh + 1 ELSE E + sh
         IN IF m1 = 0 THEN Zero(s)
            ELSE IF e1 > EMax THEN Inf(s)
            ELSE Fin(s, m1, e1)

\* a finite nonzero float with its significand shifted up to 24 bits
Norm(x) ==
  LET kk == MantBits - BitLen(x.m)
  IN [m |-> x.m * Pow2(kk), e |-> x.e - kk]

FNeg(x) == IF IsNaN(x) THEN NaN ELSE [x EXCEPT !.s = 1 - x.s]

\* float * float
FMul(a, b) ==
  IF IsNaN(a) \/ IsNaN(b) THEN NaN
  ELSE IF (IsInf(a) /\ IsZero(b)) \/ (IsZero(a) /\ IsInf(b)) THEN NaN
  ELSE IF IsInf(a) \/ IsInf(b) THEN Inf(Xor(a.s, b.s))
  ELSE IF IsZero(a) \/ IsZero(b) THEN Zero(Xor(a.s, b.s))
  ELSE
    LET x == Norm(a)
        y == Norm(b)
        a1 == x.m \div 4096
        a0 == x.m % 4096
        b1 == y.m \div 4096
        b0 == y.m % 4096
        low == a0 * b0
        mid == (a1 * b0 + a0 * b1) + (low \div 4096)
        hi == (a1 * b1) + (mid \div 4096)
        mid12 == mid % 4096
        lo12 == low % 4096
    IN RoundPack(Xor(a.s, b.s), hi * 64 + (mid12 \div 64), x.e + y.e + 18,
                 (mid12 % 64) # 0 \/ lo12 # 0)

\* n further quotient bits of r / d, with the quotient q so far
RECURSIVE DivBits(_, _, _, _)
DivBits(q, r, d, n) ==
  IF n = 0 THEN [q |-> q, r |-> r]
  ELSE IF 2 * r >= d THEN DivBits(2 * q + 1, 2 * r - d, d, n - 1)
  ELSE DivBits(2 * q, 2 * r, d, n - 1)

\* float / float
FDiv(a, b) ==
  IF IsNaN(a) \/ IsNaN(b) THEN NaN
  ELSE IF (IsInf(a) /\ IsInf(b)) \/ (IsZero(a) /\ IsZero(b)) THEN NaN
  ELSE IF IsInf(a) \/ IsZero(b) THEN Inf(Xor(a.s, b.s))
  ELSE IF IsInf(b) \/ IsZero(a) THEN Zero(Xor(a.s, b.s))
  ELSE
    LET x == Norm(a)
        y == Norm(b)
        d == DivBits(x.m \div y.m, x.m % y.m, y.m, 26)
    IN RoundPack(Xor(a.s, b.s), d.q, (x.e - y.e) - 26, d.r # 0)

\* float + float
FAdd(a, b) ==
  IF IsNaN(a) \/ IsNaN(b) THEN NaN
  ELSE IF IsInf(a) /\ IsInf(b) THEN (IF a.s = b.s THEN a ELSE NaN)
  ELSE IF IsInf(a) THEN a
  ELSE IF IsInf(b) THEN b
  ELSE IF IsZero(a) /\ IsZero(b) THEN (IF a.s = b.s THEN a ELSE Zero(0))
  ELSE IF IsZero(a) THEN b
  ELSE IF IsZero(b) THEN a
  ELSE
    LET x == IF a.e >= b.e THEN a ELSE b
        y == IF a.e >= b.e THEN b ELSE a
        d == x.e - y.e
        A == x.m * 64
        B == IF d >= 31 THEN 0 ELSE (y.m * 64) \div Pow2(d)
        st == IF d >= 31 THEN TRUE ELSE ((y.m * 64) % Pow2(d)) # 0
    IN IF x.s = y.s THEN RoundPack(x.s, A + B, x.e - 6, st)
       ELSE IF A = B /\ ~st THEN Zero(0)
       ELSE IF A > B
         THEN RoundPack(x.s, IF st THEN (A - B) - 1 ELSE A - B, x.e - 6, st)
       ELSE RoundPack(y.s, B - A, x.e - 6, FALSE)

\* float - float
FSub(a, b) == FAdd(a, FNeg(b))

\* the C++ comparison a == b on floats
FEq(a, b) ==
  /\ ~IsNaN(a)
  /\ ~IsNaN(b)
  /\ \/ a = b
     \/ IsZero(a) /\ IsZero(b)

\* float(x) for an int32_t x
FloatOfInt32(d) ==
  IF d = INT32_MIN THEN Fin(1, Pow2(MantBits - 1), 8)
  ELSE RoundPack(IF d < 0 THEN 1 ELSE 0, Abs(d), 0, FALSE)

\* float(x) for a uint32_t x
FloatOfU32(u) ==
  IF u.hi < 32768 THEN RoundPack(0, u.hi * 65536 + u.lo, 0, FALSE)
  ELSE RoundPack(0, u.hi * 32768 + (u.lo \div 2), 1, u.lo % 2 = 1)

\* -------------------------------------------------------------------- bounds

\* calibration calls (setZero, setCalFac) made on one object
MaxCalls == 2

\* readiness polls counted within one readPressure call (the count saturates)
MaxPolls == 2

\* ------------------------------------------------------- SparkFun_MicroPressure.h

BUSY_FLAG == 32

INTEGRITY_FLAG == 4

MATH_SAT_FLAG == 1

Pressure_Units == {"PSI", "PA", "KPA", "TORR", "INHG", "ATM", "BAR", "RAW"}

\* ---------------------------------------------------------------------- inputs

\* eoc_pin: -1 (no end-of-conversion pin) or a pin number
EocPins == {0 - 1, 5}

\* transfer_function: the three documented characters and another one
TransferChars == {"A", "B", "C", "Z"}

\* (minimumPSI, maximumPSI): the default 0..25 and a 1..15 part
PsiRanges == {<<FloatOfInt32(0), FloatOfInt32(25)>>,
              <<FloatOfInt32(1), FloatOfInt32(15)>>}

\* arguments of setZero besides the current maxCounts: a measured zero close
\* to the nominal one, a count above every maxCounts, and the largest uint32_t
ZeroArgs == {U32(1700000), U32(16000000), [hi |-> 65535, lo |-> 65535]}

\* arguments of setCalFac: about 1.82e-6 (not a quotient of the defaults) and
\* +infinity
CalFacArgs == {Fin(0, 16000001, 0 - 43), Inf(0)}

\* results of Wire.read(): a byte, or -1 when the receive buffer is empty
NoData == 0 - 1

\* bytes the device can present as status: idle, busy, integrity error,
\* saturation error, busy with both errors, all ones
StatusBytes == {64, 96, 68, 65, 101, 255}

\* what requestFrom(_address, 1) leaves in the receive buffer
StatusReplies == {<<>>} \cup {<<b>> : b \in StatusBytes}

\* levels of the end-of-conversion pin
PinLevels == {0, 1}

\* ------------------------------------------------------------------------ state

VARIABLES
  eoc,                \* _eoc
  transfer_function,  \* _transfer_function
  minPsi,             \* _minPsi
  maxPsi,             \* _maxPsi
  deltaPsi,           \* _deltaPsi
  calFactor,          \* _calFactor
  minCounts,          \* _minCounts
  maxCounts,          \* _maxCounts
  deltaCounts,        \* _deltaCounts
  calls,              \* calibration calls made so far
  last,               \* the last of constructor / setZero / setCalFac, its argument
  pc,                 \* position of the caller within readPressure
  units,              \* argument of the readPressure call in progress
  status,             \* the local `status` of the wait loop, -1 before it is set
  pin,                \* the last digitalRead(_eoc), -1 before one is made
  tx,                 \* bytes of the last write transaction of this call
  trig,               \* trigger transactions of this call (saturates at 2)
  polls,              \* readiness polls of this call (saturates at MaxPolls)
  data,               \* 4-byte requests of this call (saturates at 2)
  rx,                 \* receive buffer after requestFrom(_address, 4)
  rstatus,            \* the local `status` of the data read, -1 before it
  reading,            \* the local `reading`
  result              \* value returned by readPressure, "none" before it returns

cal == <<eoc, transfer_function, minPsi, maxPsi, deltaPsi, calFactor,
         minCounts, maxCounts, deltaCounts>>

call == <<pc, units, status, pin, tx, trig, polls, data, rx, rstatus, reading,
          result>>

vars == <<cal, calls, last, call>>

\* ------------------------------------------------------------------ constructor

\* the switch with the counts of 'C' in its default branch
CountsOf_DefaultC(tf) ==
  CASE tf = "A" -> [min |-> U32(1677722), max |-> U32(15099494)]
    [] tf = "B" -> [min |-> U32(419430), max |-> U32(3774874)]
    [] OTHER -> [min |-> U32(3355443), max |-> U32(13421773)]

\* the switch on _transfer_function
CountsOf(tf) ==
  CASE tf = "A" -> [min |-> U32(1677722), max |-> U32(15099494)]
    [] tf = "B" -> [min |-> U32(419430), max |-> U32(3774874)]
    [] tf = "C" -> [min |-> U32(3355443), max |-> U32(13421773)]
    [] OTHER -> [min |-> U32(1677722), max |-> U32(15099494)]

Idle ==
  /\ pc = "idle"
  /\ units = "none"
  /\ status = 0 - 1
  /\ pin = 0 - 1
  /\ tx = <<>>
  /\ trig = 0
  /\ polls = 0
  /\ data = 0
  /\ rx = <<>>
  /\ rstatus = 0 - 1
  /\ reading = 0
  /\ result = "none"

Init ==
  \E e \in EocPins, tf \in TransferChars, r \in PsiRanges :
    /\ eoc = e
    /\ transfer_function = tf
    /\ minPsi = r[1]
    /\ maxPsi = r[2]
    /\ minCounts = CountsOf(tf).min
    /\ maxCounts = CountsOf(tf).max
    /\ deltaCounts = U32Sub(CountsOf(tf).max, CountsOf(tf).min)
    /\ deltaPsi = FSub(r[2], r[1])
    /\ calFactor = FDiv(FSub(r[2], r[1]),
                        FloatOfU32(U32Sub(CountsOf(tf).max, CountsOf(tf).min)))
    /\ calls = 0
    /\ last = [op |-> "constructor", zero |-> U32(0), calFac |-> Zero(0)]
    /\ Idle

\* ------------------------------------------------------------------ calibration

\* setZero without the recomputation of _calFactor
setZero_StaleFactor(zero) ==
  /\ pc = "idle"
  /\ calls < MaxCalls
  /\ calls' = calls + 1
  /\ last' = [op |-> "setZero", zero |-> zero, calFac |-> Zero(0)]
  /\ minCounts' = zero
  /\ deltaCounts' = U32Sub(maxCounts, zero)
  /\ UNCHANGED <<eoc, transfer_function, minPsi, maxPsi, deltaPsi, maxCounts,
                 calFactor>>
  /\ UNCHANGED call

\* _minCounts = zero and the two assignments that follow it
setZero(zero) ==
  /\ pc = "idle"
  /\ calls < MaxCalls
  /\ calls' = calls + 1
  /\ last' = [op |-> "setZero", zero |-> zero, calFac |-> Zero(0)]
  /\ minCounts' = zero
  /\ deltaCounts' = U32Sub(maxCounts, zero)
  /\ calFactor' = FDiv(deltaPsi, FloatOfU32(U32Sub(maxCounts, zero)))
  /\ UNCHANGED <<eoc, transfer_function, minPsi, maxPsi, deltaPsi, maxCounts>>
  /\ UNCHANGED call

\* setCalFac without the update of _maxPsi
setCalFac_KeepsMaxPsi(calFac) ==
  /\ pc = "idle"
  /\ calls < MaxCalls
  /\ calls' = calls + 1
  /\ last' = [op |-> "setCalFac", zero |-> U32(0), calFac |-> calFac]
  /\ calFactor' = calFac
  /\ deltaPsi' = FMul(calFac, FloatOfU32(deltaCounts))
  /\ UNCHANGED <<eoc, transfer_function, minPsi, maxPsi, minCounts, maxCounts,
                 deltaCounts>>
  /\ UNCHANGED call

\* _calFactor = calFac and the two assignments that follow it
setCalFac(calFac) ==
  /\ pc = "idle"
  /\ calls < MaxCalls
  /\ calls' = calls + 1
  /\ last' = [op |-> "setCalFac", zero |-> U32(0), calFac |-> calFac]
  /\ calFactor' = calFac
  /\ deltaPsi' = FMul(calFac, FloatOfU32(deltaCounts))
  /\ maxPsi' = FAdd(minPsi, FMul(calFac, FloatOfU32(deltaCounts)))
  /\ UNCHANGED <<eoc, transfer_function, minPsi, minCounts, maxCounts,
                 deltaCounts>>
  /\ UNCHANGED call

\* ------------------------------------------------------------------- readStatus

\* _i2cPort->read(): the i-th byte of the receive buffer, -1 when there is none
WireRead(buf, i) == IF i <= Len(buf) THEN buf[i] ELSE NoData

\* the conversion of an int to uint8_t
Uint8(n) == n % 256

\* readStatus(): requestFrom(_address, 1) left `reply` in the receive buffer
readStatus(reply) == Uint8(WireRead(reply, 1))

\* ----------------------------------------------------------------- readPressure

\* the wait loop without its test for the byte 0xFF
StatusBusy_NoEscape(st) == BitAnd(st, BUSY_FLAG) # 0

\* the condition of the status wait loop
StatusBusy(st) == BitAnd(st, BUSY_FLAG) # 0 /\ st # 255

\* the flag check without its test of the saturation bit
StatusError_IntegrityOnly(st) == BitAnd(st, INTEGRITY_FLAG) # 0

\* the condition of the flag check on the status byte of the data read
StatusError(st) ==
  BitAnd(st, INTEGRITY_FLAG) # 0 \/ BitAnd(st, MATH_SAT_FLAG) # 0

\* the assembly loop taking the three bytes least significant first
RECURSIVE ReadCount_LittleEndian(_, _, _)
ReadCount_LittleEndian(buf, i, acc) ==
  IF i = 3 THEN acc
  ELSE LET r == BitOr(acc, WireRead(buf, 4 - i))
       IN ReadCount_LittleEndian(buf, i + 1, IF i # 2 THEN r * 256 ELSE r)

\* the loop that assembles `reading` from the three bytes after the status
RECURSIVE ReadCount(_, _, _)
ReadCount(buf, i, acc) ==
  IF i = 3 THEN acc
  ELSE LET r == BitOr(acc, WireRead(buf, i + 2))
       IN ReadCount(buf, i + 1, IF i # 2 THEN r * 256 ELSE r)

\* int32_t(a) - int32_t(b).  Signed overflow is undefined; the outcomes
\* modelled are the wrapped difference and the two saturated ones.
Int32Sub(a, b) ==
  IF b < 0 /\ a > INT32_MAX + b
    THEN {((a - INT32_MAX) - 1) - ((b + INT32_MAX) + 1), INT32_MAX, INT32_MIN}
  ELSE IF b > 0 /\ a < INT32_MIN + b
    THEN {((a + INT32_MAX) + 1) - ((b - INT32_MAX) - 1), INT32_MAX, INT32_MIN}
  ELSE {a - b}

\* The multipliers of the unit ladder are double literals.  Where double is
\* binary32 (the AVR boards) the literal is the nearest binary32 value:
UnitFactor(u) ==
  CASE u = "PA" -> Fin(0, 14120463, 0 - 11)
    [] u = "KPA" -> Fin(0, 14459360, 0 - 21)
    [] u = "TORR" -> Fin(0, 13556751, 0 - 18)
    [] u = "INHG" -> Fin(0, 8539687, 0 - 22)
    [] u = "ATM" -> Fin(0, 9133516, 0 - 27)
    [] u = "BAR" -> Fin(0, 9254312, 0 - 27)

\* and where double is binary64 it is the nearest binary64 value, here
\* d * 2^e with the 53-bit d as five base-4096 digits, most significant first
UnitFactor64(u) ==
  CASE u = "PA" -> [d |-> <<26, 3820, 478, 1690, 3395>>, e |-> 0 - 40]
    [] u = "KPA" -> [d |-> <<27, 2371, 3063, 625, 874>>, e |-> 0 - 50]
    [] u = "TORR" -> [d |-> <<25, 3512, 471, 3519, 1160>>, e |-> 0 - 47]
    [] u = "INHG" -> [d |-> <<16, 1180, 1242, 2304, 1007>>, e |-> 0 - 51]
    [] u = "ATM" -> [d |-> <<17, 1723, 2444, 2018, 2084>>, e |-> 0 - 56]
    [] u = "BAR" -> [d |-> <<17, 2667, 1291, 242, 1979>>, e |-> 0 - 56]

\* float(double(x) * K) for a float x and a binary64 constant K: the exact
\* product in base-4096 digits, rounded to 53 bits and then to binary32
MulDouble(x, K) ==
  IF IsNaN(x) THEN NaN
  ELSE IF IsInf(x) THEN Inf(x.s)
  ELSE IF IsZero(x) THEN Zero(x.s)
  ELSE
    LET n == Norm(x)
        p1 == n.m \div 4096
        p0 == n.m % 4096
        c0 == p0 * K.d[5]
        c1 == (p0 * K.d[4] + p1 * K.d[5]) + (c0 \div 4096)
        c2 == (p0 * K.d[3] + p1 * K.d[4]) + (c1 \div 4096)
        c3 == (p0 * K.d[2] + p1 * K.d[3]) + (c2 \div 4096)
        c4 == (p0 * K.d[1] + p1 * K.d[2]) + (c3 \div 4096)
        c5 == (p1 * K.d[1]) + (c4 \div 4096)
        P == <<c0 % 4096, c1 % 4096, c2 % 4096, c3 % 4096, c4 % 4096,
               c5 % 4096, c5 \div 4096>>
        \* the product has 76 or 77 bits; N is the product made 77 bits long
        f == IF P[7] < 16 THEN 2 ELSE 1
        N == [i \in 1..7 |->
                ((f * P[i]) % 4096)
                  + (IF i = 1 THEN 0 ELSE (f * P[i - 1]) \div 4096)]
        \* rounding to the 53 bits N[3..7]
        rem == N[2] * 4096 + N[1]
        up == rem > 8388608 \/ (rem = 8388608 /\ N[3] % 2 = 1)
        q3 == N[3] + (IF up THEN 1 ELSE 0)
        q4 == N[4] + (q3 \div 4096)
        q5 == N[5] + (q4 \div 4096)
        q6 == N[6] + (q5 \div 4096)
        q7 == N[7] + (q6 \div 4096)
    IN RoundPack(x.s,
                 q7 * 33554432 + (q6 % 4096) * 8192 + (q5 % 4096) * 2
                   + ((q4 % 4096) \div 2048),
                 ((n.e + K.e) - (f - 1)) + 47,
                 ((q4 % 4096) % 2048) # 0 \/ (q3 % 4096) # 0)

\* The if/else ladder on `units` applied to `pressure`: the values the build
\* can return, double being binary32 or binary64.
ToUnits(pressure, u) ==
  IF u \in {"PA", "KPA", "TORR", "INHG", "ATM", "BAR"}
  THEN {FMul(pressure, UnitFactor(u)), MulDouble(pressure, UnitFactor64(u))}
  ELSE {pressure}

\* the counts-to-pressure line with the difference taken as a uint32_t
ToPressure_Unsigned(d, factor, offset) ==
  FAdd(FMul(IF d < 0 THEN FloatOfU32(U32Sub(U32(0), U32(0 - d)))
            ELSE FloatOfInt32(d), factor), offset)

\* the counts-to-pressure line without the addition of _minPsi
ToPressure_NoOffset(d, factor, offset) == FMul(FloatOfInt32(d), factor)

\* the counts-to-pressure line, for the difference d of the two int32_t casts
ToPressure(d, factor, offset) == FAdd(FMul(FloatOfInt32(d), factor), offset)

\* _i2cPort->write(b): one more byte in the transmit buffer
WireWrite(buf, b) == Append(buf, Uint8(b))

\* readPressure(u) up to the end of the trigger transaction: the buffer that
\* beginTransmission empties and the three writes fill goes out as one
\* transaction at endTransmission
Trigger(u) ==
  /\ pc = "idle"
  /\ pc' = "wait"
  /\ units' = u
  /\ tx' = WireWrite(WireWrite(WireWrite(<<>>, 170), 0), 0)
  /\ trig' = Min(trig + 1, 2)
  /\ UNCHANGED <<status, pin, polls, data, rx, rstatus, reading, result>>
  /\ UNCHANGED <<cal, calls, last>>

\* one evaluation of the condition of the loop on the end-of-conversion pin
PollEoc(level) ==
  /\ pc = "wait"
  /\ eoc # 0 - 1
  /\ pin' = level
  /\ polls' = Min(polls + 1, MaxPolls)
  /\ pc' = IF level = 0 THEN "delay" ELSE "read"
  /\ UNCHANGED <<units, status, tx, trig, data, rx, rstatus, reading, result>>
  /\ UNCHANGED <<cal, calls, last>>

\* one readStatus() of the status wait and the test of the loop condition
PollStatus(reply) ==
  /\ pc = "wait"
  /\ eoc = 0 - 1
  /\ status' = readStatus(reply)
  /\ polls' = Min(polls + 1, MaxPolls)
  /\ pc' = IF StatusBusy(readStatus(reply)) THEN "delay" ELSE "read"
  /\ UNCHANGED <<units, pin, tx, trig, data, rx, rstatus, reading, result>>
  /\ UNCHANGED <<cal, calls, last>>

\* a wait loop that sends the trigger command again after each delay
Delay_Retrigger ==
  /\ pc = "delay"
  /\ pc' = "wait"
  /\ tx' = <<170, 0, 0>>
  /\ trig' = Min(trig + 1, 2)
  /\ UNCHANGED <<units, status, pin, polls, data, rx, rstatus, reading, result>>
  /\ UNCHANGED <<cal, calls, last>>

\* delay(1) in either wait loop
Delay ==
  /\ pc = "delay"
  /\ pc' = "wait"
  /\ UNCHANGED <<units, status, pin, tx, trig, polls, data, rx, rstatus,
                 reading, result>>
  /\ UNCHANGED <<cal, calls, last>>

\* requestFrom(_address, 4) left `reply` in the receive buffer; from there to
\* the return statement
DataRead(reply) ==
  /\ pc = "read"
  /\ pc' = "done"
  /\ data' = Min(data + 1, 2)
  /\ rx' = reply
  /\ rstatus' = Uint8(WireRead(reply, 1))
  /\ IF StatusError(Uint8(WireRead(reply, 1)))
     THEN /\ result' = NaN
          /\ UNCHANGED reading
     ELSE /\ reading' = ReadCount(reply, 0, 0)
          /\ IF units = "RAW"
             THEN result' = FloatOfU32(U32(ReadCount(reply, 0, 0)))
             ELSE \E d \in Int32Sub(Int32OfU32(U32(ReadCount(reply, 0, 0))),
                                    Int32OfU32(minCounts)) :
                    result' \in ToUnits(ToPressure(d, calFactor, minPsi),
                                        units)
  /\ UNCHANGED <<units, status, pin, tx, trig, polls>>
  /\ UNCHANGED <<cal, calls, last>>

\* the caller takes the returned value; the locals of the call are gone
Return ==
  /\ pc = "done"
  /\ pc' = "idle"
  /\ units' = "none"
  /\ status' = 0 - 1
  /\ pin' = 0 - 1
  /\ tx' = <<>>
  /\ trig' = 0
  /\ polls' = 0
  /\ data' = 0
  /\ rx' = <<>>
  /\ rstatus' = 0 - 1
  /\ reading' = 0
  /\ result' = "none"
  /\ UNCHANGED <<cal, calls, last>>

\* the 24-bit counts the device reports: both ends of the range, the count
\* that equals maxCounts, and a mid-range one with three distinct bytes
Counts == {0, 16777215, 66051} \cup {Int32OfU32(maxCounts)}

BytesOf(c) == <<c \div 65536, (c \div 256) % 256, c % 256>>

\* what requestFrom(_address, 4) leaves in the receive buffer
DataReplies ==
  {<<>>} \cup {<<st>> \o BytesOf(c) : st \in {64, 96, 68, 65, 255}, c \in Counts}

Next ==
  \/ \E z \in ZeroArgs \cup {maxCounts} : setZero(z)
  \/ \E f \in CalFacArgs : setCalFac(f)
  \/ \E u \in Pressure_Units : Trigger(u)
  \/ \E level \in PinLevels : PollEoc(level)
  \/ \E reply \in StatusReplies : PollStatus(reply)
  \/ Delay
  \/ \E reply \in DataReplies : DataRead(reply)
  \/ Return

Spec == Init /\ [][Next]_vars

\* In status-poll mode the loop runs on (delay, poll, delay, ...) and the
\* device, for the liveness claim, presents a ready status again and again.
ReadyReplies ==
  {r \in StatusReplies : r = <<>> \/ (r[1] \div 32) % 2 = 0 \/ r[1] = 255}

PollReady == \E reply \in ReadyReplies : PollStatus(reply)

FairSpec == Spec /\ WF_vars(Delay) /\ SF_vars(PollReady)

\* ----------------------------------------------------------------------- claims

\* bit `mask` (a power of two) of the byte n is set
BitSet(n, mask) == (n \div mask) % 2 = 1

\* the 24-bit count carried by bytes 1..3 of a 4-byte reply
CountOf(buf) == buf[2] * 65536 + buf[3] * 256 + buf[4]

\* the float x is exactly the integer n, 0 <= n < 2^24
IsExactly(x, n) ==
  /\ x.k = "fin"
  /\ x.s = 0
  /\ IF n = 0 THEN x.m = 0
     ELSE /\ x.e <= 0
          /\ x.e >= 0 - 23
          /\ x.m = n * Pow2(0 - x.e)

\* C1 (as claimed): when readPressure has returned, the result is NaN if the
\* integrity or the saturation bit of the status byte of the data read is set,
\* and is not NaN if both are clear.
C1_AsClaimed ==
  pc = "done" =>
    /\ (BitSet(rstatus, 4) \/ BitSet(rstatus, 1)) => result.k = "nan"
    /\ ~(BitSet(rstatus, 4) \/ BitSet(rstatus, 1)) => result.k # "nan"

\* C1 (amended): when readPressure has returned, the result is NaN if the
\* integrity or the saturation bit of the status byte of the data read is set,
\* whatever the count bytes; if both bits are clear the result is not NaN
\* provided the unit is RAW or the scale factor and the minimum pressure are
\* finite.
C1_FlagsGiveNaN ==
  pc = "done" =>
    /\ (BitSet(rstatus, 4) \/ BitSet(rstatus, 1)) => result.k = "nan"
    /\ ( /\ ~(BitSet(rstatus, 4) \/ BitSet(rstatus, 1))
         /\ units = "RAW" \/ (calFactor.k = "fin" /\ minPsi.k = "fin") )
       => result.k # "nan"

\* a read whose status has only the saturation bit among the two error bits,
\* with nonzero count bytes, has returned NaN
C1_Witness ==
  /\ pc = "done"
  /\ Len(rx) = 4
  /\ BitSet(rstatus, 1)
  /\ ~BitSet(rstatus, 4)
  /\ CountOf(rx) = 16777215
  /\ units = "RAW"
  /\ result.k = "nan"

\* C2: within a readPressure call the trigger (0xAA, 0x00, 0x00) is written
\* once, before any readiness poll, and never again; the 4-byte read is made
\* once, after a poll that found the device ready in the configured mode
\* (pin high with an EOC pin, else a status with busy clear or equal to 0xFF).
C2_BusOrder ==
  /\ pc = "idle" => (trig = 0 /\ polls = 0 /\ data = 0)
  /\ pc # "idle" => (trig = 1 /\ tx = <<170, 0, 0>>)
  /\ polls > 0 => trig = 1
  /\ data <= 1
  /\ pc = "done" <=> data = 1
  /\ eoc # 0 - 1 => status = 0 - 1
  /\ eoc = 0 - 1 => pin = 0 - 1
  /\ pc \in {"read", "done"} =>
       /\ polls >= 1
       /\ eoc # 0 - 1 => pin = 1
       /\ eoc = 0 - 1 => (~BitSet(status, 32) \/ status = 255)

\* a call that polled more than once before its data read, in pin mode
C2_Witness ==
  /\ pc = "done"
  /\ eoc # 0 - 1
  /\ polls = MaxPolls
  /\ data = 1
  /\ trig = 1

\* C3: in status-poll mode each status read of the wait either ends the wait
\* (busy clear, or the byte is 0xFF) or leads to a delay and then another
\* status read; the data read is reached only after a ready status; and when
\* the device goes on presenting ready statuses the wait ends.
C3_StatusWait ==
  /\ [][(pc = "wait" /\ eoc = 0 - 1) =>
          /\ (~BitSet(status', 32) \/ status' = 255) => pc' = "read"
          /\ (BitSet(status', 32) /\ status' # 255) => pc' = "delay"]_vars
  /\ [][pc = "delay" => (pc' = "wait" /\ data' = 0 /\ status' = status)]_vars
  /\ [][(pc' = "read" /\ pc # "read") => pc = "wait"]_vars
  /\ [](( pc \in {"read", "done"} /\ eoc = 0 - 1) =>
          (~BitSet(status, 32) \/ status = 255))
  /\ (pc = "wait" /\ eoc = 0 - 1) ~> (pc = "read")

\* a status wait that ended on the byte 0xFF after at least one busy status
C3_Witness ==
  /\ pc = "read"
  /\ eoc = 0 - 1
  /\ status = 255
  /\ polls = MaxPolls

\* C8: after construction and before any calibration call the count bounds
\* are those of the table: 'A' and every character other than 'B' and 'C'
\* give 1677722 and 15099494, 'B' gives 419430 and 3774874, 'C' gives 3355443
\* and 13421773; minCounts < maxCounts < 2^24 and deltaCounts is their
\* nonzero difference.
C8_CountTable ==
  calls = 0 =>
    /\ transfer_function = "B" =>
         /\ minCounts.hi * 65536 + minCounts.lo = 419430
         /\ maxCounts.hi * 65536 + maxCounts.lo = 3774874
    /\ transfer_function = "C" =>
         /\ minCounts.hi * 65536 + minCounts.lo = 3355443
         /\ maxCounts.hi * 65536 + maxCounts.lo = 13421773
    /\ transfer_function \notin {"B", "C"} =>
         /\ minCounts.hi * 65536 + minCounts.lo = 1677722
         /\ maxCounts.hi * 65536 + maxCounts.lo = 15099494
    /\ maxCounts.hi < 256
    /\ minCounts.hi * 65536 + minCounts.lo < maxCounts.hi * 65536 + maxCounts.lo
    /\ deltaCounts.hi * 65536 + deltaCounts.lo =
         (maxCounts.hi * 65536 + maxCounts.lo)
           - (minCounts.hi * 65536 + minCounts.lo)
    /\ deltaCounts # [hi |-> 0, lo |-> 0]

\* an object constructed with a character outside the table
C8_Witness ==
  /\ calls = 0
  /\ transfer_function = "Z"
  /\ minCounts = [hi |-> 25, lo |-> 39322]
  /\ maxCounts = [hi |-> 230, lo |-> 26214]

\* C9: a RAW read with clean flags returns exactly the count
\* b1 * 65536 + b2 * 256 + b3 of data bytes 1..3, a value in 0..16777215,
\* in every calibration state.
C9_RawIsCount ==
  (pc = "done" /\ units = "RAW" /\ ~BitSet(rstatus, 4) /\ ~BitSet(rstatus, 1))
    => /\ Len(rx) = 4
       /\ CountOf(rx) \in 0..16777215
       /\ IsExactly(result, CountOf(rx))

\* a RAW read of three distinct bytes after two calibration calls, the last of
\* them a setCalFac
C9_Witness ==
  /\ pc = "done"
  /\ units = "RAW"
  /\ calls = 2
  /\ last.op = "setCalFac"
  /\ rstatus = 64
  /\ rx = <<64, 1, 2, 3>>
  /\ result = [k |-> "fin", s |-> 0, m |-> 8454528, e |-> 0 - 7]

\* the float nearest the integer a - b of two uint32_t values, no wraparound
TrueDiffFloat(a, b) ==
  IF U32Lt(a, b) THEN FNeg(FloatOfU32(U32Sub(b, a)))
  ELSE FloatOfU32(U32Sub(a, b))

\* |x| <= 2^n for a finite float x
MagLePow2(x, n) ==
  \/ x.m = 0
  \/ BitLen(x.m) + x.e <= n
  \/ (x.m = Pow2(BitLen(x.m) - 1) /\ (BitLen(x.m) - 1) + x.e = n)

\* a and b are finite and differ by at most 2^k units in the last place of a
\* float whose exponent field is refE
Within(a, b, k, refE) ==
  /\ a.k = "fin"
  /\ b.k = "fin"
  /\ MagLePow2(FSub(a, b), refE + k)

\* x is zero or a finite float of magnitude between 2^-100 and 2^100
Ordinary(x) ==
  /\ x.k = "fin"
  /\ x.m = 0 \/ (x.e + 23 >= 0 - 100 /\ x.e + 23 <= 100)

\* a <= b for finite floats
FLe(a, b) ==
  LET key(x) == (IF x.s = 0 THEN 1 ELSE 0 - 1) * ((x.e + 149) * 8388608 + x.m)
  IN key(a) <= key(b)

\* C4 (as claimed): in every state deltaCounts is the integer maxCounts -
\* minCounts, deltaPsi equals maxPsi - minPsi and calFactor * deltaCounts
\* equals deltaPsi.
C4_AsClaimed ==
  /\ ~U32Lt(maxCounts, minCounts)
  /\ deltaCounts = U32Sub(maxCounts, minCounts)
  /\ FEq(deltaPsi, FSub(maxPsi, minPsi))
  /\ FEq(FMul(calFactor, FloatOfU32(deltaCounts)), deltaPsi)

\* C4 (amended): in every state deltaCounts is maxCounts - minCounts modulo
\* 2^32; and when deltaCounts is nonzero and the float fields are zero or of
\* magnitude between 2^-100 and 2^100, calFactor * deltaCounts is within 2
\* units in the last place of deltaPsi, and maxPsi - minPsi is within 2 units
\* in the last place (of the larger of minPsi and maxPsi) of deltaPsi.
C4_DerivedFields ==
  /\ deltaCounts.lo = (maxCounts.lo - minCounts.lo) % 65536
  /\ deltaCounts.hi =
       ((maxCounts.hi - minCounts.hi)
          - (IF maxCounts.lo < minCounts.lo THEN 1 ELSE 0)) % 65536
  /\ ( /\ deltaCounts # [hi |-> 0, lo |-> 0]
       /\ Ordinary(calFactor)
       /\ Ordinary(deltaPsi)
       /\ Ordinary(minPsi)
       /\ Ordinary(maxPsi) )
     => /\ Within(FMul(calFactor, FloatOfU32(deltaCounts)), deltaPsi, 1,
                  deltaPsi.e)
        /\ Within(FSub(maxPsi, minPsi), deltaPsi, 1, Max(minPsi.e, maxPsi.e))

\* a calibration state after two calibration calls, the last a
\* setZero(1700000), in which calFactor * deltaCounts is not exactly deltaPsi
C4_Witness ==
  /\ calls = 2
  /\ last.op = "setZero"
  /\ minCounts = [hi |-> 25, lo |-> 61600]
  /\ deltaCounts # [hi |-> 0, lo |-> 0]
  /\ Ordinary(calFactor)
  /\ Ordinary(deltaPsi)
  /\ Ordinary(minPsi)
  /\ Ordinary(maxPsi)
  /\ FMul(calFactor, FloatOfU32(deltaCounts)) # deltaPsi

\* the readPressure call that has returned was a PSI read with clean flags of
\* the count c
PsiReadOf(c) ==
  /\ pc = "done"
  /\ units = "PSI"
  /\ Len(rx) = 4
  /\ ~BitSet(rstatus, 4)
  /\ ~BitSet(rstatus, 1)
  /\ CountOf(rx) = c

\* C5 (as claimed): with deltaCounts nonzero, a PSI read with clean flags of
\* a count equal to maxCounts returns maxPsi.
C5_AsClaimed ==
  ( /\ deltaCounts # [hi |-> 0, lo |-> 0]
    /\ PsiReadOf(maxCounts.hi * 65536 + maxCounts.lo) )
  => FEq(result, maxPsi)

\* C5 (amended): with minCounts < maxCounts and float fields that are zero or
\* of magnitude between 2^-100 and 2^100, a PSI read with clean flags of a
\* count equal to maxCounts returns maxPsi to within 8 units in the last
\* place of the larger of minPsi and maxPsi.
C5_MaxCountsGivesMaxPsi ==
  ( /\ U32Lt(minCounts, maxCounts)
    /\ Ordinary(calFactor)
    /\ Ordinary(deltaPsi)
    /\ Ordinary(minPsi)
    /\ Ordinary(maxPsi)
    /\ PsiReadOf(maxCounts.hi * 65536 + maxCounts.lo) )
  => Within(result, maxPsi, 3, Max(minPsi.e, maxPsi.e))

\* such a read after a setZero to a measured zero below maxCounts
C5_Witness ==
  /\ PsiReadOf(maxCounts.hi * 65536 + maxCounts.lo)
  /\ last.op = "setZero"
  /\ minCounts = [hi |-> 25, lo |-> 61600]
  /\ calFactor.k = "fin"
  /\ result.k = "fin"
  /\ result.s = 0
  /\ result.m # 0

\* C6 (as claimed): setZero(z) sets minCounts to z, leaves minPsi, maxPsi,
\* deltaPsi and maxCounts unchanged and sets calFactor to deltaPsi divided by
\* the integer maxCounts - z.
C6_AsClaimed ==
  [][(calls' = calls + 1 /\ last'.op = "setZero") =>
       /\ minCounts' = last'.zero
       /\ minPsi' = minPsi
       /\ maxPsi' = maxPsi
       /\ deltaPsi' = deltaPsi
       /\ maxCounts' = maxCounts
       /\ calFactor' = FDiv(deltaPsi, TrueDiffFloat(maxCounts, last'.zero))]_vars

\* C6 (amended): setZero(z) sets minCounts to z, leaves minPsi, maxPsi,
\* deltaPsi and maxCounts unchanged and sets calFactor to deltaPsi divided by
\* maxCounts - z taken modulo 2^32 (the integer maxCounts - z when z is at
\* most maxCounts).
C6_SetZeroEffect ==
  [][(calls' = calls + 1 /\ last'.op = "setZero") =>
       /\ minCounts' = last'.zero
       /\ minPsi' = minPsi
       /\ maxPsi' = maxPsi
       /\ deltaPsi' = deltaPsi
       /\ maxCounts' = maxCounts
       /\ calFactor' =
            FDiv(deltaPsi, FloatOfU32(U32Sub(maxCounts, last'.zero)))]_vars

\* the state after setZero(16000000), a zero above maxCounts
C6_Witness ==
  /\ last.op = "setZero"
  /\ last.zero = [hi |-> 244, lo |-> 9216]
  /\ minCounts = [hi |-> 244, lo |-> 9216]
  /\ calFactor.k = "fin"
  /\ calFactor.s = 0
  /\ calFactor.m # 0

\* C7: setCalFac(f) sets calFactor to f and maxPsi to minPsi + f * deltaCounts
\* (each operation a float operation, deltaCounts as before the call) and
\* leaves minCounts, maxCounts, deltaCounts and minPsi unchanged.
C7_SetCalFacEffect ==
  [][(calls' = calls + 1 /\ last'.op = "setCalFac") =>
       /\ calFactor' = last'.calFac
       /\ maxPsi' = FAdd(minPsi, FMul(last'.calFac, FloatOfU32(deltaCounts)))
       /\ minCounts' = minCounts
       /\ maxCounts' = maxCounts
       /\ deltaCounts' = deltaCounts
       /\ minPsi' = minPsi]_vars

\* the state after setCalFac(16000001 * 2^-43) on a 1..15 part with transfer
\* function A: maxPsi has moved from 15 to about 25.41
C7_Witness ==
  /\ last.op = "setCalFac"
  /\ calls = 1
  /\ transfer_function = "A"
  /\ calFactor = [k |-> "fin", s |-> 0, m |-> 16000001, e |-> 0 - 43]
  /\ minPsi = [k |-> "fin", s |-> 0, m |-> 8388608, e |-> 0 - 23]
  /\ maxPsi.k = "fin"
  /\ maxPsi.e = 0 - 19
  /\ maxPsi.m > 13107200

\* C10 (as claimed): a PSI read with clean flags of the count raw returns
\* (raw - minCounts) * calFactor + minPsi, raw - minCounts being the integer
\* difference.
C10_AsClaimed ==
  (pc = "done" /\ Len(rx) = 4 /\ PsiReadOf(CountOf(rx))) =>
    result = FAdd(FMul(TrueDiffFloat(U32(CountOf(rx)), minCounts), calFactor),
                  minPsi)

\* C10 (amended): with minCounts below 2^31, a PSI read with clean flags of
\* the count raw returns (raw - minCounts) * calFactor + minPsi, raw -
\* minCounts being the integer difference; when raw is below minCounts and
\* calFactor is positive and finite the result does not exceed minPsi.
C10_SignedDifference ==
  (pc = "done" /\ Len(rx) = 4 /\ PsiReadOf(CountOf(rx)) /\ minCounts.hi < 32768)
  => /\ result = FAdd(FMul(TrueDiffFloat(U32(CountOf(rx)), minCounts),
                           calFactor), minPsi)
     /\ ( /\ CountOf(rx) < minCounts.hi * 65536 + minCounts.lo
          /\ calFactor.k = "fin"
          /\ calFactor.s = 0
          /\ minPsi.k = "fin" )
        => (result.k = "fin" /\ FLe(result, minPsi))

\* a PSI read of the count 0 after setZero(1700000) on a 0..25 part: the
\* result is negative
C10_Witness ==
  /\ PsiReadOf(0)
  /\ minCounts = [hi |-> 25, lo |-> 61600]
  /\ minPsi = [k |-> "fin", s |-> 0, m |-> 0, e |-> 0 - 149]
  /\ calFactor.k = "fin"
  /\ calFactor.s = 0
  /\ result.k = "fin"
  /\ result.s = 1
  /\ result.m # 0

====
